---- MODULE Spec2Model ----
(***************************************************************************)
(* Kiva server (src/src/bin.rs, src/src/store.rs): a TCP key-value server  *)
(* in which one Store Actor task owns the HashStore and serves Messages    *)
(* that per-connection handler tasks send over a bounded mpsc channel,     *)
(* each Message carrying its own oneshot reply channel.                    *)
(*                                                                         *)
(* Text (String, &[u8]) is a sequence of characters; a character is a      *)
(* one-character string, except the NUL byte and a byte that is not valid  *)
(* UTF-8, which have names.                                                *)
(***************************************************************************)
EXTENDS Integers, Sequences, FiniteSets, TLC

(* ------------------------------ bounds --------------------------------- *)

\* Number of TCP connections the acceptor takes in a run.
MaxConns == 3

\* Number of connections in the runs that vary the data instead.
FewConns == 2

\* Longest token sequence given to parse_tokens alone.
MaxTokens == 4

\* Largest number of pieces (words, separators) in a buffer given to tokenize
\* alone.
MaxPieces == 3

\* Capacity of the request channel. The source sets 100 (bin.rs:159); it is
\* scaled below MaxConns so that senders do find the channel full.
cbuf == 2

(* ------------------------------ text ----------------------------------- *)

NUL == "<NUL>"
BAD == "<FF>"

\* let mut buf = [0; 128]
BufSize == 128

LowerCase == <<"a", "b", "c", "d", "e", "f", "g", "h", "i", "j", "k", "l", "m",
               "n", "o", "p", "q", "r", "s", "t", "u", "v", "w", "x", "y", "z">>
UpperCase == <<"A", "B", "C", "D", "E", "F", "G", "H", "I", "J", "K", "L", "M",
               "N", "O", "P", "Q", "R", "S", "T", "U", "V", "W", "X", "Y", "Z">>

\* char::is_whitespace, on the characters of the model's alphabet
is_whitespace(c) == c \in {" ", "\t", "\n", "\r"}

\* str::to_uppercase, character by character (ASCII alphabet)
UpperChar(c) ==
    IF \E i \in 1..26 : LowerCase[i] = c
    THEN UpperCase[CHOOSE i \in 1..26 : LowerCase[i] = c]
    ELSE c

to_uppercase(s) == [i \in 1..Len(s) |-> UpperChar(s[i])]

Digits == <<"0", "1", "2", "3", "4", "5", "6", "7", "8", "9">>

\* format!("{}", n) of an unsigned integer
RECURSIVE Decimal(_)
Decimal(n) ==
    IF n < 10 THEN <<Digits[n + 1]>>
    ELSE Decimal(n \div 10) \o <<Digits[(n % 10) + 1]>>

\* Option<T>
None == <<>>
Some(v) == <<v>>

(* ------------------------------ tokens --------------------------------- *)

TokPing == [kind |-> "Ping"]
TokGet == [kind |-> "Get"]
TokSet == [kind |-> "Set"]
Operand(s) == [kind |-> "Operand", text |-> s]

(* ------------------------------ requests ------------------------------- *)

Ping == [op |-> "Ping"]
Get(k) == [op |-> "Get", key |-> k]
Set(k, v) == [op |-> "Set", key |-> k, val |-> v]
NoOp == [op |-> "NoOp"]
Invalid(e) == [op |-> "Invalid", error |-> e]

\* Result<Request, ParserError>
Ok(r) == [ok |-> TRUE, req |-> r]
Err(e) == [ok |-> FALSE, err |-> e]

Response(b) == [body |-> b]

(* ------------------------------ parser --------------------------------- *)

ErrPing == <<"P", "i", "n", "g", " ", "o", "p", " ", "e", "x", "p", "e", "c", "t", "e", "d", " ", "n", "o", " ", "o", "p", "e", "r", "a", "n", "d", "s", ",", " ", "g", "o", "t", " ">>
ErrGetCount == <<"G", "e", "t", " ", "o", "p", " ", "e", "x", "p", "e", "c", "t", "e", "d", " ", "e", "x", "a", "c", "t", "l", "y", " ", "1", " ", "o", "p", "e", "r", "a", "n", "d", ",", " ", "g", "o", "t", " ">>
ErrGetOperand == <<"G", "e", "t", " ", "o", "p", "e", "r", "a", "n", "d", "s", " ", "c", "a", "n", "n", "o", "t", " ", "b", "e", " ", "o", "p", " ", "t", "y", "p", "e", "s">>
ErrSetCount == <<"S", "e", "t", " ", "o", "p", " ", "e", "x", "p", "e", "c", "t", "e", "d", " ", "2", " ", "o", "p", "e", "r", "a", "n", "d", "s", ",", " ", "g", "o", "t", " ">>
ErrSetOperand == <<"S", "e", "t", " ", "o", "p", "e", "r", "a", "n", "d", "s", " ", "c", "a", "n", "n", "o", "t", " ", "b", "e", " ", "o", "p", " ", "t", "y", "p", "e", "s">>
ErrInvalidOp == <<"I", "n", "v", "a", "l", "i", "d", " ", "o", "p", " ", "t", "o", "k", "e", "n">>

\* The text a parser that takes keywords as operands would use for a token
TokenText(tok) ==
    CASE tok.kind = "Operand" -> tok.text
      [] tok.kind = "Ping" -> <<"P", "I", "N", "G">>
      [] tok.kind = "Get" -> <<"G", "E", "T">>
      [] tok.kind = "Set" -> <<"S", "E", "T">>

\* parse_tokens that does not look at the type of the operands
parse_tokensAnyOperand(tokens) ==
    LET argc == Len(tokens) IN
    IF argc = 0 THEN Ok(NoOp)
    ELSE LET op == tokens[1] IN
         CASE op.kind = "Ping" ->
                IF argc # 1 THEN Err(ErrPing \o Decimal(argc - 1))
                ELSE Ok(Ping)
           [] op.kind = "Get" ->
                IF argc # 2 THEN Err(ErrGetCount \o Decimal(argc - 1))
                ELSE Ok(Get(TokenText(tokens[2])))
           [] op.kind = "Set" ->
                IF argc # 3 THEN Err(ErrSetCount \o Decimal(argc - 1))
                ELSE Ok(Set(TokenText(tokens[2]), TokenText(tokens[3])))
           [] OTHER -> Err(ErrInvalidOp)

parse_tokens(tokens) ==
    LET argc == Len(tokens) IN
    IF argc = 0 THEN Ok(NoOp)
    ELSE LET op == tokens[1] IN
         CASE op.kind = "Ping" ->
                IF argc # 1 THEN Err(ErrPing \o Decimal(argc - 1))
                ELSE Ok(Ping)
           [] op.kind = "Get" ->
                IF argc # 2 THEN Err(ErrGetCount \o Decimal(argc - 1))
                ELSE IF tokens[2].kind = "Operand"
                     THEN Ok(Get(tokens[2].text))
                     ELSE Err(ErrGetOperand)
           [] op.kind = "Set" ->
                IF argc # 3 THEN Err(ErrSetCount \o Decimal(argc - 1))
                ELSE IF tokens[2].kind # "Operand" THEN Err(ErrSetOperand)
                ELSE IF tokens[3].kind # "Operand" THEN Err(ErrSetOperand)
                ELSE Ok(Set(tokens[2].text, tokens[3].text))
           [] OTHER -> Err(ErrInvalidOp)

(* ------------------------------ tokenizer ------------------------------ *)

KwPING == <<"P", "I", "N", "G">>
KwGET == <<"G", "E", "T">>
KwSET == <<"S", "E", "T">>

\* std::str::from_utf8(bytes) is Ok
ValidUtf8(bytes) == \A i \in 1..Len(bytes) : bytes[i] # BAD

\* a split on the space character only
IsSeparatorSpaceOnly(c) == c = " "

IsSeparator(c) == is_whitespace(c) \/ c = NUL

\* text.split(pred).filter(|s| !s.is_empty()): the maximal runs of characters
\* that are not separators, in the order of the text
Chunks(text) ==
    LET n == Len(text)
        starts == {i \in 1..n : /\ ~IsSeparator(text[i])
                                /\ (i = 1 \/ IsSeparator(text[i - 1]))}
        EndOf(i) == CHOOSE j \in i..n :
                        /\ \A k \in i..j : ~IsSeparator(text[k])
                        /\ (j = n \/ IsSeparator(text[j + 1]))
        Nth(k) == CHOOSE s \in starts : Cardinality({t \in starts : t <= s}) = k
    IN [k \in 1..Cardinality(starts) |-> SubSeq(text, Nth(k), EndOf(Nth(k)))]

\* a tokenizer that compares the chunk as it is written
TokenOfExact(chunk) ==
    CASE chunk = KwPING -> TokPing
      [] chunk = KwGET -> TokGet
      [] chunk = KwSET -> TokSet
      [] OTHER -> Operand(chunk)

TokenOf(chunk) ==
    LET up == to_uppercase(chunk) IN
    CASE up = KwPING -> TokPing
      [] up = KwGET -> TokGet
      [] up = KwSET -> TokSet
      [] OTHER -> Operand(chunk)

\* Defined for valid UTF-8 only: from_utf8(bytes).unwrap() panics otherwise.
tokenize(bytes) ==
    LET chunks == Chunks(bytes) IN
    [i \in 1..Len(chunks) |-> TokenOf(chunks[i])]

parse_request(bytes) == parse_tokens(tokenize(bytes))

(* ------------------------------ store ---------------------------------- *)

\* Result<Option<V>, Box<dyn Error>> of the Store trait
StoreOk(opt) == [ok |-> TRUE, val |-> opt]

\* HashStore::new
new == [k \in {} |-> <<>>]

\* HashStore::get
get(s, key) ==
    IF key \in DOMAIN s THEN StoreOk(Some(s[key])) ELSE StoreOk(None)

\* insert that writes the value under every key of the map
insertAll(s, key, val) == [k \in (DOMAIN s) \cup {key} |-> val]

\* insert that forgets the other keys
insertOnly(s, key, val) == [k \in {key} |-> val]

\* insert that keeps the value of a key already present
insertIfAbsent(s, key, val) ==
    [k \in (DOMAIN s) \cup {key} |-> IF k \in DOMAIN s THEN s[k] ELSE val]

\* HashMap::insert
insert(s, key, val) ==
    [k \in (DOMAIN s) \cup {key} |-> IF k = key THEN val ELSE s[k]]

\* set that returns the value it has stored
setReturnsNew(s, key, val) ==
    [store |-> insert(s, key, val), ret |-> StoreOk(Some(val))]

\* HashStore::set: the store afterwards and the returned previous value
set(s, key, val) ==
    [store |-> insert(s, key, val),
     ret |-> IF key \in DOMAIN s THEN StoreOk(Some(s[key])) ELSE StoreOk(None)]

(* ------------------------------ exec_request --------------------------- *)

PONG == <<"P", "O", "N", "G">>
NIL == <<"(", "n", "i", "l", ")">>
OK == <<"O", "K">>
ErrorPrefix == <<"E", "R", "R", "O", "R", ":", " ">>
QUOTE == "\""

\* format!("{}", val): the quotes left out
Unquoted(val) == val

\* format!("\"{}\"", val)
Quoted(val) == <<QUOTE>> \o val \o <<QUOTE>>

\* The Response and the store after the call. store.get(&key).unwrap() cannot
\* panic: get always returns Ok.
exec_request(req, s) ==
    CASE req.op = "Ping" -> [resp |-> Response(PONG), store |-> s]
      [] req.op = "Get" ->
            LET r == get(s, req.key).val IN
            IF r # None THEN [resp |-> Response(Quoted(r[1])), store |-> s]
            ELSE [resp |-> Response(NIL), store |-> s]
      [] req.op = "Set" ->
            [resp |-> Response(OK), store |-> set(s, req.key, req.val).store]
      [] req.op = "NoOp" -> [resp |-> Response(<<NUL>>), store |-> s]
      [] req.op = "Invalid" ->
            [resp |-> Response(ErrorPrefix \o req.error), store |-> s]

(* ------------------------------ inputs --------------------------------- *)

\* Keys and values the clients of the model use.
KeyK == <<"k">>
KeyM == <<"m">>
ValX == <<"x">>
ValY == <<"Y", "y">>

\* What one socket.read can put at the start of the buffer.
Line(words) ==
    IF Len(words) = 0 THEN <<>>
    ELSE IF Len(words) = 1 THEN words[1] \o <<"\n">>
    ELSE IF Len(words) = 2 THEN words[1] \o <<" ">> \o words[2] \o <<"\n">>
    ELSE words[1] \o <<" ">> \o words[2] \o <<" ">> \o words[3] \o <<"\n">>

CmdPing == Line(<<KwPING>>)
CmdSet(k, v) == Line(<<KwSET, k, v>>)
CmdSetLower(k, v) == Line(<<<<"s", "e", "t">>, k, v>>)
CmdGet(k) == Line(<<KwGET, k>>)
CmdEmpty == <<>>
CmdNoOperator == Line(<<KeyK, KeyM>>)
CmdBadBytes == <<BAD, "\n">>
CmdGetNoKey == Line(<<KwGET>>)
CmdSetKeywordKey == Line(<<KwSET, <<"g", "e", "t">>, ValX>>)
CmdSetKeywordVal == Line(<<KwSET, KeyK, <<"S", "e", "t">>>>)
CmdSetPadded ==
    <<" ">> \o KwSET \o <<" ", "\t">> \o KeyK \o <<" ", " ">> \o ValY
        \o <<"\r", "\n">>

\* The payloads of the runs with MaxConns connections
Payloads == {CmdSet(KeyK, ValX), CmdGet(KeyK)}

\* The payloads of the runs with FewConns connections
DataPayloads ==
    {CmdPing, CmdSet(KeyK, ValX), CmdSet(KeyM, ValX), CmdGet(KeyK), CmdEmpty,
     CmdNoOperator, CmdBadBytes}

\* The payloads of the runs with requests that do not parse
ErrPayloads ==
    {CmdSet(KeyK, ValX), CmdGet(KeyK), CmdNoOperator, CmdGetNoKey,
     CmdSetKeywordKey, CmdSetKeywordVal}

\* The payloads of the runs that are about scheduling only
LivePayloads == {CmdPing}

\* SET and GET as a client may spell them, and SET of a keyword
KeyPayloads ==
    {CmdSetLower(KeyM, ValY), CmdSetPadded, CmdGet(KeyK), CmdSetKeywordKey,
     CmdSetKeywordVal}

\* A request, and bytes that are not text
ShutdownPayloads == {CmdPing, CmdBadBytes}

\* Requests, and bytes that are not text
IoPayloads == {CmdSet(KeyK, ValX), CmdGet(KeyK), CmdBadBytes}

\* A client that sends PING and closes: the reads after that return 0 bytes
ClosedPayloads == {CmdPing, CmdEmpty}

\* The key that connection h uses when each client keeps to a key of its own.
KeyOf(h) == <<LowerCase[h]>>

OwnPayloads(h) ==
    {CmdSet(KeyOf(h), ValX), CmdSetLower(KeyOf(h), ValY), CmdGet(KeyOf(h))}

\* The outcome of socket.read: Ok(n) with n bytes of data, or Err.
ReadOk(data) == [ok |-> TRUE, data |-> data]
ReadErr == [ok |-> FALSE, data |-> <<>>]

\* The buffer after the read: [0; 128] with the data at its start. A failed
\* read leaves it zero-filled.
BufAfter(r) ==
    [i \in 1..BufSize |-> IF r.ok /\ i <= Len(r.data) THEN r.data[i] ELSE NUL]

\* a handler that unwraps the result of parse_request
ParsedUnwrap(r) ==
    LET buf == BufAfter(r) IN
    IF ~ValidUtf8(buf) THEN [panic |-> TRUE, req |-> NoOp]
    ELSE LET res == parse_request(buf) IN
         IF res.ok THEN [panic |-> FALSE, req |-> res.req]
         ELSE [panic |-> TRUE, req |-> NoOp]

\* a handler that unwraps the result of socket.read
ParsedReadFails(r) ==
    LET buf == BufAfter(r) IN
    IF ~r.ok \/ ~ValidUtf8(buf) THEN [panic |-> TRUE, req |-> NoOp]
    ELSE LET res == parse_request(buf) IN
         [panic |-> FALSE,
          req |-> IF res.ok THEN res.req ELSE Invalid(res.err)]

\* a tokenize that drops the bytes that are not text instead of panicking
ParsedLossy(r) ==
    LET buf == BufAfter(r)
        text == SelectSeq(buf, LAMBDA c : c # BAD)
        res == parse_request(text)
    IN [panic |-> FALSE,
        req |-> IF res.ok THEN res.req ELSE Invalid(res.err)]

\* Lines 186-197 on the buffer: panic in tokenize, or the request to send.
Parsed(r) ==
    LET buf == BufAfter(r) IN
    IF ~ValidUtf8(buf) THEN [panic |-> TRUE, req |-> NoOp]
    ELSE LET res == parse_request(buf) IN
         [panic |-> FALSE,
          req |-> IF res.ok THEN res.req ELSE Invalid(res.err)]

AllReads ==
    {ReadOk(d) : d \in Payloads \cup DataPayloads \cup LivePayloads
                        \cup ErrPayloads \cup ClosedPayloads
                        \cup IoPayloads \cup ShutdownPayloads
                        \cup KeyPayloads
                        \cup UNION {OwnPayloads(h) : h \in 1..MaxConns}}
        \cup {ReadErr}

ParsedTable == [r \in AllReads |-> Parsed(r)]

(* ------------------------------ state ---------------------------------- *)

Conns == 1..MaxConns
PipeIds == 1..MaxConns

VARIABLES
    task,        \* per connection: where its handler task stands
    req,         \* per connection: the request of the current iteration
    recv_pipe,   \* per connection: the oneshot receiver it holds
    resp,        \* per connection: the reply taken from the oneshot
    chan,        \* the mpsc channel: Messages sent and not yet received
    pipes,       \* the oneshot channels
    store,       \* the HashStore owned by the manager task
    mpc,         \* where the manager task stands
    mmsg,        \* the Message the manager received
    mresp,       \* the Response the manager computed
    executing,   \* history: Messages received by the manager, not yet answered
    enqOrder,    \* history: pipes of Messages enqueued, not yet answered
    lastSet,     \* history: <<key, value>> of the latest Set executed per key
    completed,   \* history: per connection, value of its last answered Set
                 \* of the key KeyOf(h)
    call,        \* a single call of a function, apart from the server
    rd,          \* history: per connection, what the socket.read of the
                 \* current iteration returned
    wr,          \* history: per connection, how the last write_all ended that
                 \* answered a read without data ("ok" or "err")
    main         \* where main stands: in its accept loop, or returned

vars == <<task, req, recv_pipe, resp, chan, pipes, store, mpc, mmsg, mresp,
          executing, enqOrder, lastSet, completed, call, rd, wr, main>>

handlerVars == <<task, req, recv_pipe, resp>>
managerVars == <<store, mpc, mmsg, mresp>>
historyVars == <<executing, enqOrder, lastSet, completed>>
ioVars == <<rd, wr, main>>

Message(r, p) == [req |-> r, pipe |-> p]

FreePipe == [state |-> "free", owner |-> 0, val |-> None, nsent |-> 0]

\* oneshot::channel(): a channel not in use (the lowest free one)
NewPipe == CHOOSE p \in PipeIds :
              /\ pipes[p].state = "free"
              /\ \A q \in PipeIds : pipes[q].state = "free" => p <= q

NoCall == [fn |-> "none"]

\* The places of a handler task that is running
Live == {"read", "send", "await", "write"}

\* The Senders of the request channel that exist: tx of main (0) until main
\* returns, and the clone txc of every running handler
Senders == (IF main = "accept" THEN {0} ELSE {})
               \cup {h \in Conns : task[h] \in Live}

\* rx exists: the manager task is in its loop
RxAlive == mpc \in {"recv", "exec", "reply"}

\* main, before the first accept: the manager spawned with an empty store
Server ==
    /\ task = [h \in Conns |-> "none"]
    /\ req = [h \in Conns |-> None]
    /\ recv_pipe = [h \in Conns |-> 0]
    /\ resp = [h \in Conns |-> None]
    /\ chan = <<>>
    /\ pipes = [p \in PipeIds |-> FreePipe]
    /\ store = new
    /\ mpc = "recv"
    /\ mmsg = None
    /\ mresp = None
    /\ executing = {}
    /\ enqOrder = <<>>
    /\ lastSet = {}
    /\ completed = [h \in Conns |-> None]
    /\ rd = [h \in Conns |-> None]
    /\ wr = [h \in Conns |-> "none"]
    /\ main = "accept"

Init == Server /\ call = NoCall

(* ------------------------------ acceptor ------------------------------- *)

\* listener.accept() returns a connection; tx.clone(); tokio::spawn(handler)
Accept(h) ==
    /\ main = "accept"
    /\ task[h] = "none"
    /\ \A g \in Conns : g < h => task[g] # "none"
    /\ task' = [task EXCEPT ![h] = "read"]
    /\ UNCHANGED <<req, recv_pipe, resp, chan, pipes, managerVars,
                   executing, enqOrder, lastSet, completed, call, ioVars>>

(* ------------------------------ connection handler --------------------- *)

\* socket.read returns; the buffer is parsed; the oneshot is created and the
\* Message built. The task is then at txc.send(msg).await.
HandlerRead(h, r) ==
    /\ task[h] = "read"
    /\ rd' = [rd EXCEPT ![h] = Some(r)]
    /\ wr' = [wr EXCEPT ![h] = "none"]
    /\ LET out == ParsedTable[r] IN
       IF out.panic
       THEN /\ task' = [task EXCEPT ![h] = "dead"]
            /\ UNCHANGED <<req, recv_pipe, pipes>>
       ELSE LET p == NewPipe IN
            /\ task' = [task EXCEPT ![h] = "send"]
            /\ req' = [req EXCEPT ![h] = Some(out.req)]
            /\ recv_pipe' = [recv_pipe EXCEPT ![h] = p]
            /\ pipes' = [pipes EXCEPT ![p] =
                    [state |-> "open", owner |-> h, val |-> None, nsent |-> 0]]
    /\ UNCHANGED <<resp, chan, managerVars, historyVars, call, main>>

\* send that does not wait for room in the channel
HandlerSendUnbounded(h) ==
    /\ task[h] = "send"
    /\ RxAlive
    /\ chan' = Append(chan, Message(req[h][1], recv_pipe[h]))
    /\ enqOrder' = Append(enqOrder, recv_pipe[h])
    /\ task' = [task EXCEPT ![h] = "await"]
    /\ UNCHANGED <<req, recv_pipe, resp, pipes, managerVars, executing,
                   lastSet, completed, call, ioVars>>

\* send that puts the Message at the front of the channel
HandlerSendFront(h) ==
    /\ task[h] = "send"
    /\ RxAlive
    /\ Len(chan) < cbuf
    /\ chan' = <<Message(req[h][1], recv_pipe[h])>> \o chan
    /\ enqOrder' = Append(enqOrder, recv_pipe[h])
    /\ task' = [task EXCEPT ![h] = "await"]
    /\ UNCHANGED <<req, recv_pipe, resp, pipes, managerVars, executing,
                   lastSet, completed, call, ioVars>>

\* a handler that goes on to its next read without awaiting the reply
HandlerSendNoWait(h) ==
    /\ task[h] = "send"
    /\ RxAlive
    /\ Len(chan) < cbuf
    /\ chan' = Append(chan, Message(req[h][1], recv_pipe[h]))
    /\ enqOrder' = Append(enqOrder, recv_pipe[h])
    /\ task' = [task EXCEPT ![h] = "read"]
    /\ UNCHANGED <<req, recv_pipe, resp, pipes, managerVars, executing,
                   lastSet, completed, call, ioVars>>

\* txc.send(msg).await completes: the channel had room and took the Message.
HandlerSend(h) ==
    /\ task[h] = "send"
    /\ RxAlive
    /\ Len(chan) < cbuf
    /\ chan' = Append(chan, Message(req[h][1], recv_pipe[h]))
    /\ enqOrder' = Append(enqOrder, recv_pipe[h])
    /\ task' = [task EXCEPT ![h] = "await"]
    /\ UNCHANGED <<req, recv_pipe, resp, pipes, managerVars, executing,
                   lastSet, completed, call, ioVars>>

\* recv_pipe.await.unwrap() completes with the Response sent on the oneshot.
HandlerAwait(h) ==
    /\ task[h] = "await"
    /\ pipes[recv_pipe[h]].state = "sent"
    /\ resp' = [resp EXCEPT ![h] = Some(pipes[recv_pipe[h]].val)]
    /\ pipes' = [pipes EXCEPT ![recv_pipe[h]] = FreePipe]
    /\ task' = [task EXCEPT ![h] = "write"]
    /\ completed' = IF req[h][1].op = "Set" /\ req[h][1].key = KeyOf(h)
                    THEN [completed EXCEPT ![h] = Some(req[h][1].val)]
                    ELSE completed
    /\ UNCHANGED <<req, recv_pipe, chan, managerVars, executing, enqOrder,
                   lastSet, call, ioVars>>

\* a handler that returns when the write of the reply fails
HandlerWriteStops(h, ok) ==
    /\ task[h] = "write"
    /\ task' = [task EXCEPT ![h] = IF ok THEN "read" ELSE "dead"]
    /\ req' = [req EXCEPT ![h] = None]
    /\ recv_pipe' = [recv_pipe EXCEPT ![h] = 0]
    /\ resp' = [resp EXCEPT ![h] = None]
    /\ rd' = [rd EXCEPT ![h] = None]
    /\ wr' = [wr EXCEPT ![h] = IF rd[h][1].data # <<>> THEN "none"
                               ELSE IF ok THEN "ok" ELSE "err"]
    /\ UNCHANGED <<chan, pipes, managerVars, historyVars, call, main>>

\* socket.write_all(resp.body) returns, Ok or Err alike; the loop starts over.
HandlerWrite(h, ok) ==
    /\ task[h] = "write"
    /\ task' = [task EXCEPT ![h] = "read"]
    /\ req' = [req EXCEPT ![h] = None]
    /\ recv_pipe' = [recv_pipe EXCEPT ![h] = 0]
    /\ resp' = [resp EXCEPT ![h] = None]
    /\ rd' = [rd EXCEPT ![h] = None]
    /\ wr' = [wr EXCEPT ![h] = IF rd[h][1].data # <<>> THEN "none"
                               ELSE IF ok THEN "ok" ELSE "err"]
    /\ UNCHANGED <<chan, pipes, managerVars, historyVars, call, main>>

(* ------------------------------ store manager -------------------------- *)

\* a manager that receives the next Message while one is in execution
MgrRecvEager ==
    /\ chan # <<>>
    /\ mmsg' = Some(Head(chan))
    /\ chan' = Tail(chan)
    /\ mpc' = "exec"
    /\ executing' = executing \cup {Head(chan).pipe}
    /\ UNCHANGED <<handlerVars, pipes, store, mresp, enqOrder, lastSet,
                   completed, call, ioVars>>

\* a manager that receives the Message enqueued last
MgrRecvLast ==
    /\ mpc = "recv"
    /\ chan # <<>>
    /\ mmsg' = Some(chan[Len(chan)])
    /\ chan' = SubSeq(chan, 1, Len(chan) - 1)
    /\ mpc' = "exec"
    /\ executing' = executing \cup {chan[Len(chan)].pipe}
    /\ UNCHANGED <<handlerVars, pipes, store, mresp, enqOrder, lastSet,
                   completed, call, ioVars>>

\* a manager that reads the first Message and leaves it in the channel
MgrRecvPeek ==
    /\ mpc = "recv"
    /\ chan # <<>>
    /\ mmsg' = Some(Head(chan))
    /\ mpc' = "exec"
    /\ executing' = executing \cup {Head(chan).pipe}
    /\ UNCHANGED <<handlerVars, chan, pipes, store, mresp, enqOrder, lastSet,
                   completed, call, ioVars>>

\* rx.recv().await returns Some(msg)
MgrRecv ==
    /\ mpc = "recv"
    /\ chan # <<>>
    /\ mmsg' = Some(Head(chan))
    /\ chan' = Tail(chan)
    /\ mpc' = "exec"
    /\ executing' = executing \cup {Head(chan).pipe}
    /\ UNCHANGED <<handlerVars, pipes, store, mresp, enqOrder, lastSet,
                   completed, call, ioVars>>

\* let resp = exec_request(msg.req, &mut store).await
MgrExec ==
    /\ mpc = "exec"
    /\ LET m == mmsg[1]
           r == exec_request(m.req, store)
       IN /\ store' = r.store
          /\ mresp' = Some([resp |-> r.resp, from |-> m])
          /\ lastSet' = IF m.req.op = "Set"
                        THEN {kv \in lastSet : kv[1] # m.req.key}
                                 \cup {<<m.req.key, m.req.val>>}
                        ELSE lastSet
    /\ mpc' = "reply"
    /\ UNCHANGED <<handlerVars, chan, pipes, mmsg, executing, enqOrder,
                   completed, call, ioVars>>

\* a reply sent on the pipe of the Message that waits at the head of the channel
ReplyPipeOfNext(m) == IF chan # <<>> THEN Head(chan).pipe ELSE m.pipe

\* The pipe that msg.pipe.send(resp) writes to
ReplyPipe(m) == m.pipe

\* let _ = msg.pipe.send(resp): the value is stored if the receiver still
\* exists and dropped otherwise; msg goes out of scope and the loop starts over.
MgrReply ==
    /\ mpc = "reply"
    /\ LET p == ReplyPipe(mmsg[1]) IN
       pipes' = IF pipes[p].state = "open"
                THEN [pipes EXCEPT ![p].state = "sent",
                                   ![p].val = mresp[1],
                                   ![p].nsent = @ + 1]
                ELSE IF pipes[p].state = "closed"
                THEN [pipes EXCEPT ![p] = FreePipe]
                ELSE pipes
    /\ executing' = executing \ {mmsg[1].pipe}
    /\ enqOrder' = SelectSeq(enqOrder, LAMBDA q : q # mmsg[1].pipe)
    /\ mpc' = "recv"
    /\ mmsg' = None
    /\ mresp' = None
    /\ UNCHANGED <<handlerVars, chan, store, lastSet, completed, call, ioVars>>

\* a recv that returns None as soon as the channel is empty
MgrClosedEarly ==
    /\ mpc = "recv"
    /\ chan = <<>>
    /\ mpc' = "done"
    /\ UNCHANGED <<handlerVars, chan, pipes, store, mmsg, mresp, historyVars,
                   call, ioVars>>

\* rx.recv().await returns None: the channel is empty and no Sender is left.
\* The while loop ends and the manager task completes.
MgrClosed ==
    /\ mpc = "recv"
    /\ chan = <<>>
    /\ Senders = {}
    /\ mpc' = "done"
    /\ UNCHANGED <<handlerVars, chan, pipes, store, mmsg, mresp, historyVars,
                   call, ioVars>>

(* ------------------------------ the end of main ------------------------ *)

\* listener.accept().await? is an Err: main returns it, tx is dropped and the
\* runtime shuts down.
AcceptFail ==
    /\ main = "accept"
    /\ main' = "returned"
    /\ UNCHANGED <<handlerVars, chan, pipes, managerVars, historyVars, call,
                   rd, wr>>

\* The runtime, shutting down, drops a handler task at the await it is
\* suspended in: its socket, its txc and its recv_pipe go with it, and so does
\* a Message it has not sent yet.
Cancel(h) ==
    /\ main = "returned"
    /\ task[h] \in Live
    /\ task' = [task EXCEPT ![h] = "dropped"]
    /\ req' = [req EXCEPT ![h] = None]
    /\ recv_pipe' = [recv_pipe EXCEPT ![h] = 0]
    /\ resp' = [resp EXCEPT ![h] = None]
    /\ rd' = [rd EXCEPT ![h] = None]
    /\ wr' = [wr EXCEPT ![h] = "none"]
    /\ LET p == recv_pipe[h] IN
       pipes' = IF task[h] = "send"
                THEN [pipes EXCEPT ![p] = FreePipe]
                ELSE IF task[h] = "await"
                THEN IF pipes[p].state = "open"
                     THEN [pipes EXCEPT ![p].state = "closed"]
                     ELSE [pipes EXCEPT ![p] = FreePipe]
                ELSE pipes
    /\ UNCHANGED <<chan, managerVars, historyVars, call, main>>

\* The runtime, shutting down, drops the manager task at rx.recv().await: rx
\* goes with it, and with rx the Messages still queued and their pipes.
MgrCancel ==
    /\ main = "returned"
    /\ mpc = "recv"
    /\ mpc' = "dropped"
    /\ chan' = <<>>
    /\ enqOrder' = <<>>
    /\ LET queued == {chan[i].pipe : i \in 1..Len(chan)} IN
       pipes' = [p \in PipeIds |->
                    IF p \notin queued THEN pipes[p]
                    ELSE IF pipes[p].state = "open"
                    THEN [pipes[p] EXCEPT !.state = "orphan"]
                    ELSE FreePipe]
    /\ UNCHANGED <<handlerVars, store, mmsg, mresp, executing, lastSet,
                   completed, call, ioVars>>

\* txc.send(msg).await is an Err because rx is gone: the result is ignored,
\* msg and its pipe are dropped, and recv_pipe.await.unwrap() panics.
HandlerSendClosed(h) ==
    /\ task[h] = "send"
    /\ ~RxAlive
    /\ task' = [task EXCEPT ![h] = "dead"]
    /\ req' = [req EXCEPT ![h] = None]
    /\ pipes' = [pipes EXCEPT ![recv_pipe[h]] = FreePipe]
    /\ recv_pipe' = [recv_pipe EXCEPT ![h] = 0]
    /\ UNCHANGED <<resp, chan, managerVars, historyVars, call, ioVars>>

\* recv_pipe.await is an Err because the Message was dropped with its pipe:
\* unwrap() panics.
HandlerAwaitClosed(h) ==
    /\ task[h] = "await"
    /\ pipes[recv_pipe[h]].state = "orphan"
    /\ task' = [task EXCEPT ![h] = "dead"]
    /\ req' = [req EXCEPT ![h] = None]
    /\ pipes' = [pipes EXCEPT ![recv_pipe[h]] = FreePipe]
    /\ recv_pipe' = [recv_pipe EXCEPT ![h] = 0]
    /\ UNCHANGED <<resp, chan, managerVars, historyVars, call, ioVars>>

(* ------------------------------ specifications ------------------------- *)

\* All specifications but SpecShutdown cover the running server, in which
\* main accepts and keeps tx: a send on the request channel finds the
\* receiver, and a handler that awaits its reply finds the oneshot Sender in a
\* Message that is queued or in execution. SpecShutdown adds the return of
\* main on a failed accept and the shutdown of the runtime that follows it.

Next ==
    \/ \E h \in Conns : Accept(h)
    \/ \E h \in Conns : \E d \in Payloads : HandlerRead(h, ReadOk(d))
    \/ \E h \in Conns : HandlerSend(h)
    \/ \E h \in Conns : HandlerAwait(h)
    \/ \E h \in Conns : \E ok \in BOOLEAN : HandlerWrite(h, ok)
    \/ MgrRecv
    \/ MgrExec
    \/ MgrReply

Spec == Init /\ [][Next]_vars

\* MaxConns clients that send PING; the runtime polls the manager task, and a
\* handler task that its reply has woken.
NextLive ==
    \/ \E h \in Conns : Accept(h)
    \/ \E h \in Conns : \E d \in LivePayloads : HandlerRead(h, ReadOk(d))
    \/ \E h \in Conns : HandlerSend(h)
    \/ \E h \in Conns : HandlerAwait(h)
    \/ \E h \in Conns : \E ok \in BOOLEAN : HandlerWrite(h, ok)
    \/ MgrRecv
    \/ MgrExec
    \/ MgrReply

SpecLive ==
    /\ Init
    /\ [][NextLive]_vars
    /\ WF_vars(MgrRecv)
    /\ WF_vars(MgrExec)
    /\ WF_vars(MgrReply)
    /\ \A h \in Conns : WF_vars(HandlerAwait(h))

\* FewConns clients that send every kind of request, and reads that fail.
NextData ==
    \/ \E h \in 1..FewConns : Accept(h)
    \/ \E h \in Conns : \E d \in DataPayloads : HandlerRead(h, ReadOk(d))
    \/ \E h \in Conns : HandlerRead(h, ReadErr)
    \/ \E h \in Conns : HandlerSend(h)
    \/ \E h \in Conns : HandlerAwait(h)
    \/ \E h \in Conns : \E ok \in BOOLEAN : HandlerWrite(h, ok)
    \/ MgrRecv
    \/ MgrExec
    \/ MgrReply

SpecData == Init /\ [][NextData]_vars

\* FewConns clients, each of which sends SET and GET of its own key only.
NextOwn ==
    \/ \E h \in 1..FewConns : Accept(h)
    \/ \E h \in Conns : \E d \in OwnPayloads(h) : HandlerRead(h, ReadOk(d))
    \/ \E h \in Conns : HandlerSend(h)
    \/ \E h \in Conns : HandlerAwait(h)
    \/ \E h \in Conns : \E ok \in BOOLEAN : HandlerWrite(h, ok)
    \/ MgrRecv
    \/ MgrExec
    \/ MgrReply

SpecOwn == Init /\ [][NextOwn]_vars

\* FewConns clients that send requests that parse and requests that do not.
NextErr ==
    \/ \E h \in 1..FewConns : Accept(h)
    \/ \E h \in Conns : \E d \in ErrPayloads : HandlerRead(h, ReadOk(d))
    \/ \E h \in Conns : HandlerSend(h)
    \/ \E h \in Conns : HandlerAwait(h)
    \/ \E h \in Conns : \E ok \in BOOLEAN : HandlerWrite(h, ok)
    \/ MgrRecv
    \/ MgrExec
    \/ MgrReply

SpecErr == Init /\ [][NextErr]_vars

\* FewConns clients that send requests and bytes that are not text, on
\* sockets whose reads and writes can fail.
NextIo ==
    \/ \E h \in 1..FewConns : Accept(h)
    \/ \E h \in Conns : \E d \in IoPayloads : HandlerRead(h, ReadOk(d))
    \/ \E h \in Conns : HandlerRead(h, ReadErr)
    \/ \E h \in Conns : HandlerSend(h)
    \/ \E h \in Conns : HandlerAwait(h)
    \/ \E h \in Conns : \E ok \in BOOLEAN : HandlerWrite(h, ok)
    \/ MgrRecv
    \/ MgrExec
    \/ MgrReply

SpecIo == Init /\ [][NextIo]_vars

\* FewConns clients, an accept that can fail, and the runtime that then drops
\* the tasks one by one while those not yet dropped still run.
NextShutdown ==
    \/ \E h \in 1..FewConns : Accept(h)
    \/ AcceptFail
    \/ \E h \in Conns : \E d \in ShutdownPayloads : HandlerRead(h, ReadOk(d))
    \/ \E h \in Conns : HandlerSend(h)
    \/ \E h \in Conns : HandlerSendClosed(h)
    \/ \E h \in Conns : HandlerAwait(h)
    \/ \E h \in Conns : HandlerAwaitClosed(h)
    \/ \E h \in Conns : \E ok \in BOOLEAN : HandlerWrite(h, ok)
    \/ \E h \in Conns : Cancel(h)
    \/ MgrRecv
    \/ MgrExec
    \/ MgrReply
    \/ MgrClosed
    \/ MgrCancel

SpecShutdown == Init /\ [][NextShutdown]_vars

\* FewConns clients that send SET and GET in several spellings.
NextKeys ==
    \/ \E h \in 1..FewConns : Accept(h)
    \/ \E h \in Conns : \E d \in KeyPayloads : HandlerRead(h, ReadOk(d))
    \/ \E h \in Conns : HandlerSend(h)
    \/ \E h \in Conns : HandlerAwait(h)
    \/ \E h \in Conns : \E ok \in BOOLEAN : HandlerWrite(h, ok)
    \/ MgrRecv
    \/ MgrExec
    \/ MgrReply

SpecKeys == Init /\ [][NextKeys]_vars

\* FewConns clients that send PING and then close their end.
NextClosed ==
    \/ \E h \in 1..FewConns : Accept(h)
    \/ \E h \in Conns : \E d \in ClosedPayloads : HandlerRead(h, ReadOk(d))
    \/ \E h \in Conns : HandlerSend(h)
    \/ \E h \in Conns : HandlerAwait(h)
    \/ \E h \in Conns : \E ok \in BOOLEAN : HandlerWrite(h, ok)
    \/ MgrRecv
    \/ MgrExec
    \/ MgrReply

SpecClosed == Init /\ [][NextClosed]_vars

(* ------------------------------ exec_request alone --------------------- *)

ExecKeys == {KeyK, KeyM}
ExecVals == {ValX, ValY}

\* Every store over ExecKeys and ExecVals
ExecStores == UNION {[D -> ExecVals] : D \in SUBSET ExecKeys}

ExecRequests ==
    {Ping, NoOp} \cup {Get(k) : k \in ExecKeys}
        \cup {Set(k, v) : k \in ExecKeys, v \in ExecVals}
        \cup {Invalid(e) : e \in {ErrInvalidOp, ErrPing \o Decimal(12)}}

InitExec ==
    /\ Server
    /\ call \in {[fn |-> "exec_request", req |-> r, store |-> s, ret |-> None] :
                    r \in ExecRequests, s \in ExecStores}

\* exec_request(req, &mut store).await on the drawn request and store
CallExec ==
    /\ call.fn = "exec_request"
    /\ call.ret = None
    /\ call' = [call EXCEPT !.ret = Some(exec_request(call.req, call.store))]
    /\ UNCHANGED <<handlerVars, chan, pipes, managerVars, historyVars, ioVars>>

NextExec == CallExec

SpecExec == InitExec /\ [][NextExec]_vars

(* ------------------------------ parse_tokens alone --------------------- *)

ParseTokens == {TokPing, TokGet, TokSet, Operand(KeyK), Operand(ValY)}

\* Every sequence of at most MaxTokens tokens
TokenSeqs == UNION {[1..n -> ParseTokens] : n \in 0..MaxTokens}

InitParse ==
    /\ Server
    /\ call \in {[fn |-> "parse_tokens", tokens |-> t, ret |-> None] :
                    t \in TokenSeqs}

\* parse_tokens(tokens).await on the drawn sequence
CallParse ==
    /\ call.fn = "parse_tokens"
    /\ call.ret = None
    /\ call' = [call EXCEPT !.ret = Some(parse_tokens(call.tokens))]
    /\ UNCHANGED <<handlerVars, chan, pipes, managerVars, historyVars, ioVars>>

NextParse == CallParse

SpecParse == InitParse /\ [][NextParse]_vars

(* ------------------------------ tokenize alone ------------------------- *)

\* Words in several spellings, a letter that extends a word, and separators
Pieces ==
    {<<"P", "i", "N", "g">>, <<"g", "e", "t">>, <<"S", "E", "T">>,
     <<"K", "e">>, <<"s">>, <<" ">>, <<"\n">>, <<NUL>>}

RECURSIVE Concat(_)
Concat(ps) == IF ps = <<>> THEN <<>> ELSE Head(ps) \o Concat(Tail(ps))

\* Every buffer made of at most MaxPieces pieces
TokenizeInputs ==
    {Concat(ps) : ps \in UNION {[1..n -> Pieces] : n \in 0..MaxPieces}}

InitTokenize ==
    /\ Server
    /\ call \in {[fn |-> "tokenize", bytes |-> b, ret |-> None] :
                    b \in TokenizeInputs}

\* tokenize(bytes).await on the drawn buffer, and parse_request of it
CallTokenize ==
    /\ call.fn = "tokenize"
    /\ call.ret = None
    /\ call' = [call EXCEPT !.ret = Some([tokens |-> tokenize(call.bytes),
                                          parsed |-> parse_request(call.bytes)])]
    /\ UNCHANGED <<handlerVars, chan, pipes, managerVars, historyVars, ioVars>>

NextTokenize == CallTokenize

SpecTokenize == InitTokenize /\ [][NextTokenize]_vars

(* ------------------------------ the store alone ------------------------ *)

StoreKeys == {KeyK, KeyM, ValY}
StoreVals == {ValX, ValY}

\* let mut store = Store::new()
InitStore ==
    /\ Server
    /\ call = [fn |-> "store", s |-> new, prev |-> new,
               op |-> [name |-> "new"], ret |-> None]

\* store.set(key, val)
StoreSet(key, val) ==
    /\ call.fn = "store"
    /\ LET r == set(call.s, key, val) IN
       call' = [fn |-> "store", s |-> r.store, prev |-> call.s,
                op |-> [name |-> "set", key |-> key, val |-> val],
                ret |-> Some(r.ret)]
    /\ UNCHANGED <<handlerVars, chan, pipes, managerVars, historyVars, ioVars>>

\* store.get(&key): the store is borrowed immutably
StoreGet(key) ==
    /\ call.fn = "store"
    /\ call' = [fn |-> "store", s |-> call.s, prev |-> call.s,
                op |-> [name |-> "get", key |-> key],
                ret |-> Some(get(call.s, key))]
    /\ UNCHANGED <<handlerVars, chan, pipes, managerVars, historyVars, ioVars>>

NextStore ==
    \/ \E k \in StoreKeys : \E v \in StoreVals : StoreSet(k, v)
    \/ \E k \in StoreKeys : StoreGet(k)

SpecStore == InitStore /\ [][NextStore]_vars

(* ------------------------------ properties ----------------------------- *)

\* C1: every Message the manager has dealt with got exactly one Response on
\* its own reply pipe (none while it is queued or in execution, one once the
\* manager is done with it, never two), and the Response a handler takes
\* from its pipe, and writes, was computed from that handler's own Message.
C1_OneResponseOnOwnPipe ==
    /\ \A p \in PipeIds : pipes[p].nsent <= 1
    /\ \A h \in Conns :
        /\ task[h] = "send" =>
              pipes[recv_pipe[h]] =
                  [state |-> "open", owner |-> h, val |-> None, nsent |-> 0]
        /\ task[h] = "await" =>
              LET p == recv_pipe[h]
                  m == Message(req[h][1], p)
                  pending == \/ \E i \in 1..Len(chan) : chan[i] = m
                             \/ mpc # "recv" /\ mmsg = Some(m)
              IN /\ pipes[p].owner = h
                 /\ pending => pipes[p].state = "open" /\ pipes[p].nsent = 0
                 /\ ~pending => /\ pipes[p].state = "sent"
                                /\ pipes[p].nsent = 1
                                /\ pipes[p].val.from = m
        /\ task[h] = "write" =>
              resp[h][1].from = Message(req[h][1], recv_pipe[h])

\* A handler holds the reply to its request while another handler, with a
\* different request, still waits for its own.
C1_Witness ==
    \E h, g \in Conns :
        /\ task[h] = "write"
        /\ task[g] = "await"
        /\ req[g] # req[h]
        /\ pipes[recv_pipe[g]].state = "sent"

\* C2: when every client keeps to SET and GET of its own key, the reply to a
\* GET is the quoted value of the client's last completed SET, and (nil) when
\* it has completed none.
C2_OwnKeyReads ==
    \A h \in Conns :
        (task[h] = "write" /\ req[h][1].op = "Get") =>
            /\ req[h][1].key = KeyOf(h)
            /\ resp[h][1].resp.body =
                  IF completed[h] = None THEN <<"(", "n", "i", "l", ")">>
                  ELSE <<"\"">> \o completed[h][1] \o <<"\"">>

\* Client 1 reads back the value it set last, while client 2 has set its own
\* key to another value and waits for the reply to its next request.
C2_Witness ==
    /\ task[1] = "write"
    /\ req[1][1].op = "Get"
    /\ resp[1][1].resp.body = <<"\"", "x", "\"">>
    /\ <<KeyOf(2), ValY>> \in lastSet
    /\ task[2] = "await"

\* C3: the manager has at most one Message in execution: it receives a Message
\* only when the previous one has been executed and answered.
C3_OneAtATime ==
    /\ Cardinality(executing) <= 1
    /\ (mpc = "recv") <=> (executing = {})
    /\ mpc # "recv" => executing = {mmsg[1].pipe}

\* A request is in execution while the channel is full of waiting ones.
C3_Witness == mpc = "exec" /\ Len(chan) = cbuf

\* C4: the store changes only in the manager's execution of a Set, and only at
\* the key of that Set.
C4_StoreFrame ==
    [][store' # store =>
          /\ mpc = "exec"
          /\ mpc' = "reply"
          /\ mmsg[1].req.op = "Set"
          /\ \A k \in ((DOMAIN store) \cup (DOMAIN store')) \ {mmsg[1].req.key} :
                /\ k \in DOMAIN store
                /\ k \in DOMAIN store'
                /\ store'[k] = store[k]]_vars

\* A Set of one key was executed on a store that holds the other key, and a
\* request that is no Set was executed after it.
C4_Witness ==
    /\ DOMAIN store = {KeyK, KeyM}
    /\ store[KeyK] = ValX
    /\ mpc = "reply"
    /\ mmsg[1].req.op = "Invalid"

\* C5: the reply to GET k is the quoted value of the latest SET k executed
\* before it, and (nil) if there was none.
C5_GetLatestSet ==
    (mpc = "reply" /\ mmsg[1].req.op = "Get") =>
        LET k == mmsg[1].req.key
            sets == {kv \in lastSet : kv[1] = k}
        IN mresp[1].resp.body =
              IF sets = {} THEN <<"(", "n", "i", "l", ")">>
              ELSE <<"\"">> \o (CHOOSE kv \in sets : TRUE)[2] \o <<"\"">>

\* A GET answered with the value set for its key, while the client of the
\* other key has completed a SET of a different value.
C5_Witness ==
    /\ mpc = "reply"
    /\ mmsg[1].req.op = "Get"
    /\ mresp[1].resp.body = <<"\"", "Y", "y", "\"">>
    /\ \E h \in Conns : completed[h] = Some(ValX)

\* C6: exec_request gives PONG for Ping, the quoted value or (nil) for Get, OK
\* for Set, one NUL for NoOp and "ERROR: " followed by the text for Invalid.
C6_ReplyBodies ==
    (call.fn = "exec_request" /\ call.ret # None) =>
        LET r == call.req
            body == call.ret[1].resp.body
        IN CASE r.op = "Ping" -> body = <<"P", "O", "N", "G">>
             [] r.op = "Get" ->
                   IF r.key \in DOMAIN call.store
                   THEN body = <<"\"">> \o call.store[r.key] \o <<"\"">>
                   ELSE body = <<"(", "n", "i", "l", ")">>
             [] r.op = "Set" -> body = <<"O", "K">>
             [] r.op = "NoOp" -> body = <<NUL>>
             [] r.op = "Invalid" ->
                   body = <<"E", "R", "R", "O", "R", ":", " ">> \o r.error

\* A Get of a key that the store holds has been answered.
C6_Witness ==
    /\ call.fn = "exec_request"
    /\ call.ret # None
    /\ call.req = Get(KeyM)
    /\ KeyM \in DOMAIN call.store
    /\ call.store[KeyM] = ValY

\* C7: a handler that has enqueued its Message gets its reply in the end,
\* whatever the other connections send.
C7_Answered == \A h \in Conns : (task[h] = "await") ~> (task[h] = "write")

\* A Message is last in a full channel while the manager executes another.
C7_Witness ==
    \E h \in Conns :
        /\ task[h] = "await"
        /\ Len(chan) = cbuf
        /\ chan[cbuf].pipe = recv_pipe[h]
        /\ mpc = "reply"

\* C8: a handler has at most one Message that is sent and not yet answered,
\* and has none while it reads or builds its next request.
C8_OneOutstanding ==
    \A h \in Conns :
        LET queued == {i \in 1..Len(chan) : pipes[chan[i].pipe].owner = h}
            inExec == IF mpc # "recv" /\ pipes[mmsg[1].pipe].owner = h
                      THEN 1 ELSE 0
            n == Cardinality(queued) + inExec
        IN /\ n <= 1
           /\ task[h] \in {"none", "read", "send", "write", "dead"} => n = 0
           /\ \A p \in PipeIds :
                 (pipes[p].state # "free" /\ pipes[p].owner = h) =>
                     (p = recv_pipe[h] /\ task[h] \in {"send", "await"})

\* A handler reads its next request after a full cycle, while the Message of
\* another connection is still queued.
C8_Witness ==
    \E h \in Conns :
        /\ task[h] = "read"
        /\ lastSet # {}
        /\ chan # <<>>

\* C9: the manager executes Messages in the order of their enqueueing: the one
\* in execution is the oldest unanswered one, and the channel holds the others
\* in the order in which they were sent.
C9_Fifo ==
    enqOrder =
        (IF mpc # "recv" THEN <<mmsg[1].pipe>> ELSE <<>>)
            \o [i \in 1..Len(chan) |-> chan[i].pipe]

\* Three Messages of three connections: one in execution, two queued.
C9_Witness == Len(enqOrder) = 3 /\ Len(chan) = 2 /\ mpc = "exec"

\* C10: the channel never holds more than cbuf Messages; a handler whose send
\* finds it full stays in the send with its Message, and a send that
\* completes has appended that Message to the channel.
C10_Capacity ==
    /\ [](Len(chan) <= cbuf)
    /\ [][\A h \in Conns :
            task[h] = "send" =>
                /\ Len(chan) >= cbuf => task'[h] = "send"
                /\ task'[h] = "send" =>
                      /\ req'[h] = req[h]
                      /\ recv_pipe'[h] = recv_pipe[h]
                      /\ pipes'[recv_pipe[h]] = pipes[recv_pipe[h]]
                /\ task'[h] # "send" =>
                      /\ task'[h] = "await"
                      /\ chan' = Append(chan, Message(req[h][1], recv_pipe[h]))]_vars

\* A handler is suspended in its send on a full channel.
C10_Witness == \E h \in Conns : task[h] = "send" /\ Len(chan) = cbuf

\* C11: bytes that do not parse give Request::Invalid with the parser's text,
\* the client is answered ERROR: <text>, the execution of the Invalid request
\* leaves the store as it was, and the handler goes on to its next read.
C11_ParseErrorReply ==
    /\ [](\A h \in Conns :
            LET text ==
                  CASE rd[h] = Some(ReadOk(CmdNoOperator)) ->
                         <<"I", "n", "v", "a", "l", "i", "d", " ", "o", "p", " ", "t", "o", "k", "e", "n">>
                    [] rd[h] = Some(ReadOk(CmdGetNoKey)) ->
                         <<"G", "e", "t", " ", "o", "p", " ", "e", "x", "p", "e", "c", "t", "e", "d", " ", "e", "x", "a", "c", "t", "l", "y", " ", "1", " ", "o", "p", "e", "r", "a", "n", "d", ",", " ", "g", "o", "t", " ", "0">>
                    [] rd[h] \in {Some(ReadOk(CmdSetKeywordKey)),
                                  Some(ReadOk(CmdSetKeywordVal))} ->
                         <<"S", "e", "t", " ", "o", "p", "e", "r", "a", "n", "d", "s", " ", "c", "a", "n", "n", "o", "t", " ", "b", "e", " ", "o", "p", " ", "t", "y", "p", "e", "s">>
                    [] OTHER -> <<>>
            IN text # <<>> =>
                  /\ task[h] \in {"send", "await", "write"}
                  /\ req[h] = Some([op |-> "Invalid", error |-> text])
                  /\ task[h] = "write" =>
                        resp[h][1].resp.body =
                            <<"E", "R", "R", "O", "R", ":", " ">> \o text)
    /\ [][(mpc = "exec" /\ mmsg[1].req.op = "Invalid") => store' = store]_vars
    /\ [][\A h \in Conns :
            (task[h] = "write" /\ req[h][1].op = "Invalid") =>
                task'[h] \in {"write", "read"}]_vars

\* A handler holds the ERROR reply to a GET without key, on a store that a
\* request has written to.
C11_Witness ==
    \E h \in Conns :
        /\ task[h] = "write"
        /\ rd[h] = Some(ReadOk(CmdGetNoKey))
        /\ resp[h][1].resp.body[1] = "E"
        /\ store # new

\* C12: parse_tokens returns a result for every token sequence; it is NoOp for
\* the empty sequence, Ping for [Ping], Get{k} for [Get, Operand(k)],
\* Set{k, v} for [Set, Operand(k), Operand(v)] and an error for every other
\* sequence; the result is never Request::Invalid.
C12_ParseTokens ==
    (call.fn = "parse_tokens" /\ call.ret # None) =>
        LET t == call.tokens
            r == call.ret[1]
            IsOperand(i) == t[i].kind = "Operand"
        IN /\ r.ok \in BOOLEAN
           /\ CASE Len(t) = 0 -> r = [ok |-> TRUE, req |-> [op |-> "NoOp"]]
                [] Len(t) = 1 /\ t[1].kind = "Ping" ->
                      r = [ok |-> TRUE, req |-> [op |-> "Ping"]]
                [] Len(t) = 2 /\ t[1].kind = "Get" /\ IsOperand(2) ->
                      r = [ok |-> TRUE,
                           req |-> [op |-> "Get", key |-> t[2].text]]
                [] Len(t) = 3 /\ t[1].kind = "Set" /\ IsOperand(2)
                        /\ IsOperand(3) ->
                      r = [ok |-> TRUE,
                           req |-> [op |-> "Set", key |-> t[2].text,
                                    val |-> t[3].text]]
                [] OTHER -> r.ok = FALSE /\ r.err # <<>>
           /\ r.ok => r.req.op # "Invalid"

\* parse_tokens has failed on a Set whose second operand is a keyword token.
C12_Witness ==
    /\ call.fn = "parse_tokens"
    /\ call.ret # None
    /\ call.tokens = <<TokSet, Operand(KeyK), TokGet>>
    /\ ~call.ret[1].ok

\* C13: tokenize gives, in the order of the buffer, one token per non-empty
\* fragment between whitespace and NUL characters: the keyword token for a
\* fragment that spells PING, GET or SET in any case, Operand with the
\* fragment's own text otherwise; a buffer without fragments gives the empty
\* sequence, which parses to NoOp.
C13_Tokenize ==
    (call.fn = "tokenize" /\ call.ret # None) =>
        LET Sep(c) == c \in {" ", "\t", "\n", "\r", NUL}
            Close(cur) == IF cur = <<>> THEN <<>> ELSE <<cur>>
            RECURSIVE Frags(_, _, _)
            Frags(text, i, cur) ==
                IF i > Len(text) THEN Close(cur)
                ELSE IF Sep(text[i])
                     THEN Close(cur) \o Frags(text, i + 1, <<>>)
                     ELSE Frags(text, i + 1, Append(cur, text[i]))
            Spells(f, letters) ==
                /\ Len(f) = Len(letters)
                /\ \A i \in 1..Len(f) : f[i] \in letters[i]
            Tok(f) ==
                CASE Spells(f, <<{"P", "p"}, {"I", "i"}, {"N", "n"}, {"G", "g"}>>)
                       -> [kind |-> "Ping"]
                  [] Spells(f, <<{"G", "g"}, {"E", "e"}, {"T", "t"}>>)
                       -> [kind |-> "Get"]
                  [] Spells(f, <<{"S", "s"}, {"E", "e"}, {"T", "t"}>>)
                       -> [kind |-> "Set"]
                  [] OTHER -> [kind |-> "Operand", text |-> f]
            frags == Frags(call.bytes, 1, <<>>)
            tokens == call.ret[1].tokens
        IN /\ Len(tokens) = Len(frags)
           /\ \A i \in 1..Len(frags) : tokens[i] = Tok(frags[i])
           /\ frags = <<>> =>
                 call.ret[1].parsed = [ok |-> TRUE, req |-> [op |-> "NoOp"]]

\* A lower-case keyword and an operand of mixed case, with a NUL between them.
C13_Witness ==
    /\ call.fn = "tokenize"
    /\ call.ret # None
    /\ call.bytes = <<"g", "e", "t", NUL, "K", "e">>
    /\ call.ret[1].tokens = <<TokGet, Operand(<<"K", "e">>)>>

\* C14: after any sequence of calls, set(k, v) returns the value k had before
\* (absent if none), makes k map to v and leaves every other key as it was;
\* get(k) returns the value k has (absent if none) and leaves the store as it
\* was; both return Ok.
C14_StoreSetGet ==
    (call.fn = "store" /\ call.ret # None) =>
        LET k == call.op.key
            Lookup(m) == IF k \in DOMAIN m THEN <<m[k]>> ELSE <<>>
        IN /\ call.ret[1].ok = TRUE
           /\ call.op.name = "set" =>
                 /\ call.ret[1].val = Lookup(call.prev)
                 /\ DOMAIN call.s = (DOMAIN call.prev) \cup {k}
                 /\ call.s[k] = call.op.val
                 /\ \A j \in (DOMAIN call.prev) \ {k} : call.s[j] = call.prev[j]
           /\ call.op.name = "get" =>
                 /\ call.ret[1].val = Lookup(call.s)
                 /\ call.s = call.prev

\* A set that overwrites a value and returns the old one, on a store that
\* holds two other keys.
C14_Witness ==
    /\ call.fn = "store"
    /\ call.op = [name |-> "set", key |-> KeyK, val |-> ValY]
    /\ call.ret = Some([ok |-> TRUE, val |-> <<ValX>>])
    /\ DOMAIN call.s = {KeyK, KeyM, ValY}

\* C15 as stated: a read of zero bytes gives a NoOp request that is sent to
\* the manager and answered with one NUL byte, and the handler goes on unless
\* the write of that reply fails: a failed write stops the handler.
C15_ZeroReadStopsOnFailedWrite ==
    \A h \in Conns :
        /\ rd[h] = Some(ReadOk(<<>>)) =>
              /\ task[h] \in {"send", "await", "write"}
              /\ req[h] = Some(NoOp)
              /\ task[h] = "write" => resp[h][1].resp.body = <<NUL>>
        /\ wr[h] = "ok" => task[h] = "read"
        /\ wr[h] = "err" => task[h] = "dead"

\* C15: a read of zero bytes gives a NoOp request that is sent to the manager
\* and answered with one NUL byte; after the write of that reply, failed or
\* not, the handler is at its next read.
C15_ZeroReadLoops ==
    \A h \in Conns :
        /\ rd[h] = Some(ReadOk(<<>>)) =>
              /\ task[h] \in {"send", "await", "write"}
              /\ req[h] = Some(NoOp)
              /\ task[h] = "await" =>
                    \/ \E i \in 1..Len(chan) :
                          chan[i] = Message(NoOp, recv_pipe[h])
                    \/ mmsg = Some(Message(NoOp, recv_pipe[h]))
                    \/ pipes[recv_pipe[h]].state = "sent"
              /\ task[h] = "write" => resp[h][1].resp.body = <<NUL>>
        /\ wr[h] \in {"ok", "err"} => task[h] = "read"

\* A handler whose write of the NUL reply has failed is at its next read,
\* while another holds the NUL reply to its own read of zero bytes.
C15_Witness ==
    \E h, g \in Conns :
        /\ wr[h] = "err" /\ task[h] = "read"
        /\ rd[g] = Some(ReadOk(<<>>)) /\ task[g] = "write"
        /\ resp[g][1].resp.body = <<NUL>>

\* C16: a failed read leaves the zero-filled buffer, which is processed as a
\* NoOp request; the write of a reply, failed or not, is followed by the next
\* read of the same handler. Neither failure ends the handler.
C16_TransportErrorsIgnored ==
    /\ [](\A h \in Conns :
            /\ rd[h] = Some(ReadErr) =>
                  /\ task[h] \in {"send", "await", "write"}
                  /\ req[h] = Some(NoOp)
                  /\ task[h] = "write" => resp[h][1].resp.body = <<NUL>>
            /\ wr[h] = "err" => task[h] = "read")
    /\ [][\A h \in Conns :
            task[h] = "write" => task'[h] \in {"write", "read"}]_vars

\* A handler is back at its read after a failed write, and the other, whose
\* read has failed, holds the NUL reply.
C16_Witness ==
    \E h, g \in Conns :
        /\ wr[h] = "err" /\ task[h] = "read"
        /\ rd[g] = Some(ReadErr) /\ task[g] = "write"
        /\ resp[g][1].resp.body = <<NUL>>

\* C17: bytes that are not text end the handler that read them, before it has
\* made a Message: it owns no pipe, nothing of it is in the channel or in the
\* manager, it never writes a reply, and the step that ends it changes neither
\* the store, the channel, the manager nor any other handler.
C17_BadBytesEndHandlerOnly ==
    /\ [](\A h \in Conns :
            /\ rd[h] = Some(ReadOk(CmdBadBytes)) => task[h] = "dead"
            /\ task[h] = "dead" =>
                  /\ req[h] = None /\ recv_pipe[h] = 0 /\ resp[h] = None
                  /\ \A p \in PipeIds : pipes[p].owner # h
                  /\ rd[h] = Some(ReadOk(CmdBadBytes)))
    /\ [][\A h \in Conns :
            /\ (task[h] # "dead" /\ task'[h] = "dead") =>
                  /\ UNCHANGED <<chan, pipes, managerVars, req, recv_pipe, resp>>
                  /\ \A g \in Conns \ {h} : task'[g] = task[g]
            /\ task[h] = "dead" => task'[h] = "dead"]_vars

\* One handler has ended on bytes that are not text; the other holds the reply
\* to its GET of a key that the store holds.
C17_Witness ==
    \E h, g \in Conns :
        /\ task[h] = "dead"
        /\ task[g] = "write"
        /\ rd[g] = Some(ReadOk(CmdGet(KeyK)))
        /\ resp[g][1].resp.body = Quoted(ValX)

C19_StoredTextClean ==
    LET Blank == {" ", "\t", "\n", "\r", NUL}
        Keyword(t) ==
            \/ /\ Len(t) = 4
               /\ t[1] \in {"p", "P"} /\ t[2] \in {"i", "I"}
               /\ t[3] \in {"n", "N"} /\ t[4] \in {"g", "G"}
            \/ /\ Len(t) = 3
               /\ t[1] \in {"g", "G", "s", "S"}
               /\ t[2] \in {"e", "E"} /\ t[3] \in {"t", "T"}
        Clean(t) == /\ t # <<>>
                    /\ \A i \in 1..Len(t) : t[i] \notin Blank
                    /\ ~Keyword(t)
        CleanReq(r) == r.op = "Set" => Clean(r.key) /\ Clean(r.val)
        KeywordSet == {Some(ReadOk(CmdSetKeywordKey)),
                       Some(ReadOk(CmdSetKeywordVal))}
    IN /\ \A k \in DOMAIN store : Clean(k) /\ Clean(store[k])
       /\ \A i \in 1..Len(chan) : CleanReq(chan[i].req)
       /\ mmsg # None => CleanReq(mmsg[1].req)
       /\ \A h \in Conns :
              /\ req[h] # None => CleanReq(req[h][1])
              /\ (task[h] = "write" /\ req[h][1].op = "Get") =>
                    LET b == resp[h][1].resp.body IN
                    \/ b = <<"(", "n", "i", "l", ")">>
                    \/ /\ Len(b) > 2 /\ b[1] = "\"" /\ b[Len(b)] = "\""
                       /\ Clean(SubSeq(b, 2, Len(b) - 1))
              /\ rd[h] \in KeywordSet =>
                    /\ req[h][1].op = "Invalid"
                    /\ task[h] = "write" =>
                          SubSeq(resp[h][1].resp.body, 1, 5)
                              = <<"E", "R", "R", "O", "R">>

\* The store holds what a lower-case set and a padded SET have written, and
\* a handler holds the ERROR reply to SET get x.
C19_Witness ==
    /\ DOMAIN store = {KeyK, KeyM}
    /\ store[KeyK] = ValY
    /\ \E h \in Conns :
          /\ rd[h] = Some(ReadOk(CmdSetKeywordKey))
          /\ task[h] = "write"
          /\ resp[h][1].resp.body[1] = "E"

\* C20 as stated: the Messages in flight (queued, or with the manager) are at
\* most as many as the running handlers, at most one of each handler, and
\* with no more connections than the capacity the channel is never full.
C20_InFlightNeverFull ==
    LET flight == [i \in 1..Len(chan) |-> chan[i]] \o mmsg IN
    /\ Len(flight) <= Cardinality({h \in Conns : task[h] \in Live})
    /\ \A i, j \in 1..Len(flight) :
          pipes[flight[i].pipe].owner = pipes[flight[j].pipe].owner => i = j
    /\ FewConns <= cbuf =>
          /\ Len(chan) < cbuf
          /\ \A h \in Conns : task[h] = "send" => Len(chan) < cbuf

\* C20: at most one Message of each handler is in flight (queued, or with the
\* manager); while main accepts, these are Messages of running handlers, so
\* they are at most as many as those; and with no more connections than the
\* capacity a handler that sends finds room in the channel.
C20_InFlightRoomToSend ==
    LET flight == [i \in 1..Len(chan) |-> chan[i]] \o mmsg IN
    /\ \A i, j \in 1..Len(flight) :
          pipes[flight[i].pipe].owner = pipes[flight[j].pipe].owner => i = j
    /\ main = "accept" =>
          /\ \A i \in 1..Len(flight) :
                task[pipes[flight[i].pipe].owner] \in Live
          /\ Len(flight) <= Cardinality({h \in Conns : task[h] \in Live})
    /\ FewConns <= cbuf =>
          \A h \in Conns : task[h] = "send" => Len(chan) < cbuf

\* While main accepts, every connection has its Message queued: the channel
\* is full and no handler is sending.
C20_Witness ==
    /\ main = "accept"
    /\ FewConns = cbuf
    /\ Len(chan) = cbuf
    /\ \A h \in 1..FewConns : task[h] = "await"

====
